---- MODULE Spec2Model ----
(***************************************************************************)
(* Model of dmm2bm/config.py: the INI config loader (config_to_list), the  *)
(* argument merger (get_config_name, parse_known_args), the config writer  *)
(* (write, save_params_to_config) and the calibration lookup               *)
(* (set_default_config).                                                   *)
(*                                                                         *)
(* Text is modelled character by character: a text is a sequence of        *)
(* one-character strings, so that formatting ('--{}={}'.format, str()),    *)
(* parsing (argparse's split on '=', float(), configparser's strip and     *)
(* '%' interpolation) are computed and not assumed.                        *)
(* Floats are fixed-point numbers counted in tenths (5.0 is 50); the texts *)
(* of the model carry at most one fractional digit.                        *)
(***************************************************************************)
EXTENDS Integers, Sequences, FiniteSets, TLC

VARIABLES
    fs,       \* the file system: path text -> [st, lines]
    argv,     \* sys.argv, argv[1] being the program name (Python's argv[0])
    args,     \* the Namespace returned by the last parse / given to write
    tokens,   \* the list returned by the last config_to_list
    exc,      \* "none", or the exception that ended the last operation
    last,     \* the last operation and its inputs
    lookup,   \* data/dmm.json
    params    \* the Namespace mutated by set_default_config

vars == <<fs, argv, args, tokens, exc, last, lookup, params>>

-----------------------------------------------------------------------------
(* Bounds *)

MaxLines == 3     \* lines of a hand-written config file
MaxArgs == 2      \* command-line tokens after the program name
MaxKeys == 2      \* energy keys per mode of the calibration table

-----------------------------------------------------------------------------
(* Text helpers (Python str methods) *)

Digit == <<"0", "1", "2", "3", "4", "5", "6", "7", "8", "9">>

IsDigit(c) == \E i \in 1..10 : Digit[i] = c

DigitVal(c) == (CHOOSE i \in 1..10 : Digit[i] = c) - 1

\* str.startswith
StartsWith(t, p) == Len(t) >= Len(p) /\ SubSeq(t, 1, Len(p)) = p

\* str.find for a single character, 1-based, 0 when absent
Find(t, c) ==
    IF \E i \in 1..Len(t) : t[i] = c
    THEN CHOOSE i \in 1..Len(t) : t[i] = c /\ \A j \in 1..(i - 1) : t[j] # c
    ELSE 0

\* str.strip
Strip(t) ==
    IF \A i \in 1..Len(t) : t[i] = " " THEN <<>>
    ELSE LET a == CHOOSE i \in 1..Len(t) :
                      t[i] # " " /\ \A j \in 1..(i - 1) : t[j] = " "
             b == CHOOSE i \in 1..Len(t) :
                      t[i] # " " /\ \A j \in (i + 1)..Len(t) : t[j] = " "
         IN SubSeq(t, a, b)

\* str.replace('-', '_')
Underscore(t) == [i \in 1..Len(t) |-> IF t[i] = "-" THEN "_" ELSE t[i]]

RECURSIVE DigitsOf(_)
DigitsOf(n) == IF n < 10 THEN <<Digit[n + 1]>>
               ELSE DigitsOf(n \div 10) \o <<Digit[(n % 10) + 1]>>

Abs(n) == IF n < 0 THEN -n ELSE n

Sign(n) == IF n < 0 THEN <<"-">> ELSE <<>>

-----------------------------------------------------------------------------
(* Python values: t is the type, and s, n, b hold a str, a number, a bool *)

StrV(s) == [t |-> "str", s |-> s, n |-> 0, b |-> FALSE]
FloatV(n) == [t |-> "float", s |-> <<>>, n |-> n, b |-> FALSE]   \* tenths
IntV(n) == [t |-> "int", s |-> <<>>, n |-> n, b |-> FALSE]
BoolV(b) == [t |-> "bool", s |-> <<>>, n |-> 0, b |-> b]
NoneV == [t |-> "none", s |-> <<>>, n |-> 0, b |-> FALSE]

\* str(value)
Str(v) ==
    CASE v.t = "str" -> v.s
      [] v.t = "float" ->
            Sign(v.n) \o DigitsOf(Abs(v.n) \div 10) \o <<".">>
                \o <<Digit[(Abs(v.n) % 10) + 1]>>
      [] v.t = "int" -> Sign(v.n) \o DigitsOf(Abs(v.n))
      [] v.t = "bool" -> IF v.b THEN <<"T", "r", "u", "e">>
                         ELSE <<"F", "a", "l", "s", "e">>
      [] OTHER -> <<"N", "o", "n", "e">>

\* Python's ==, which compares an int and a float by their numeric value
PyEq(a, b) ==
    CASE a.t = "int" /\ b.t = "float" -> a.n * 10 = b.n
      [] a.t = "float" /\ b.t = "int" -> a.n = b.n * 10
      [] OTHER -> a = b

RECURSIVE NatOf(_)
NatOf(t) == IF t = <<>> THEN 0
            ELSE NatOf(SubSeq(t, 1, Len(t) - 1)) * 10 + DigitVal(t[Len(t)])

AllDigits(t) == \A i \in 1..Len(t) : IsDigit(t[i])

\* float(text): [ok, n], n in tenths.  Surrounding blanks and a sign are
\* accepted; digits, or digits '.' digit.
float(text) ==
    LET s == Strip(text)
        neg == s # <<>> /\ s[1] = "-"
        u == IF s # <<>> /\ s[1] \in {"-", "+"} THEN Tail(s) ELSE s
        dot == Find(u, ".")
        ip == IF dot = 0 THEN u ELSE SubSeq(u, 1, dot - 1)
        fp == IF dot = 0 THEN <<>> ELSE SubSeq(u, dot + 1, Len(u))
        ok == /\ AllDigits(ip) /\ AllDigits(fp)
              /\ Len(ip) + Len(fp) > 0
              /\ Len(fp) <= 1
        mag == NatOf(ip) * 10 + NatOf(fp)
    IN IF ok THEN [ok |-> TRUE, n |-> IF neg THEN -mag ELSE mag]
       ELSE [ok |-> FALSE, n |-> 0]

-----------------------------------------------------------------------------
(* The schema *)

None == <<"N", "o", "n", "e">>
True == <<"T", "r", "u", "e">>
False == <<"F", "a", "l", "s", "e">>

\* pathlib.Path.home() is abbreviated to "~"
LOGS_HOME == <<"~", "/", "l", "o", "g", "s">>
CONFIG_FILE_NAME ==
    <<"~", "/", "l", "o", "g", "s", "/", "d", "m", "m", ".", "c", "o", "n", "f">>

general == <<"g", "e", "n", "e", "r", "a", "l">>
energy == <<"e", "n", "e", "r", "g", "y">>
energyioc == <<"e", "n", "e", "r", "g", "y", "i", "o", "c">>

config == <<"c", "o", "n", "f", "i", "g">>
logs_home == <<"l", "o", "g", "s", "-", "h", "o", "m", "e">>
verbose == <<"v", "e", "r", "b", "o", "s", "e">>
testing == <<"t", "e", "s", "t", "i", "n", "g">>
force == <<"f", "o", "r", "c", "e">>
energyioc_prefix ==
    <<"e", "n", "e", "r", "g", "y", "i", "o", "c", "-", "p", "r", "e", "f", "i", "x">>

Opt(name, default, type, action) ==
    [name |-> name, default |-> default, type |-> type, action |-> action,
     nargs |-> "None"]

SECTIONS == <<
    [name |-> general,
     fields |-> << Opt(config, StrV(CONFIG_FILE_NAME), "str", "store"),
                   Opt(logs_home, StrV(LOGS_HOME), "str", "store"),
                   Opt(verbose, BoolV(FALSE), "none", "store_true"),
                   Opt(testing, BoolV(FALSE), "none", "store_true"),
                   Opt(force, BoolV(FALSE), "none", "store_true") >>],
    [name |-> energy,
     fields |-> << Opt(energy, IntV(-1), "float", "store") >>],
    [name |-> energyioc,
     fields |-> << Opt(energyioc_prefix,
                       StrV(<<"2", "b", "m", ":", "M", "C", "T", "O", "p", "t",
                              "i", "c", "s", ":">>), "str", "store") >> ] >>

MONO_PARAMS == <<energy, energyioc>>
PINK_PARAMS == <<energyioc>>

SectionNames == {SECTIONS[i].name : i \in 1..Len(SECTIONS)}

Section(name) == CHOOSE s \in {SECTIONS[i] : i \in 1..Len(SECTIONS)} : s.name = name

RECURSIVE Flatten(_)
Flatten(ss) == IF ss = <<>> THEN <<>> ELSE Head(ss) \o Flatten(Tail(ss))

\* the (section, field) pairs in the order "for section in SECTIONS: for name,
\* opts in SECTIONS[section].items()" visits them
SchemaItems ==
    Flatten([i \in 1..Len(SECTIONS) |->
                [j \in 1..Len(SECTIONS[i].fields) |->
                    [sec |-> SECTIONS[i].name, opts |-> SECTIONS[i].fields[j]]]])

-----------------------------------------------------------------------------
(* Files.  A config file is a sequence of lines; a line is a section       *)
(* header "[key]", an entry "key = val", or a line that is neither.        *)

Header(name) == [k |-> "sec", key |-> name, val |-> <<>>]
Entry(key, val) == [k |-> "opt", key |-> key, val |-> val]
Junk == [k |-> "junk", key |-> <<>>, val |-> <<>>]

NoFile == [st |-> "missing", lines |-> <<>>]
File(lines) == [st |-> "ok", lines |-> lines]

FileAt(fsys, path) == IF path \in DOMAIN fsys THEN fsys[path] ELSE NoFile

\* a line that starts with '#' or ';' is a comment
IsComment(line) ==
    line.k = "opt" /\ line.key # <<>> /\ line.key[1] \in {"#", ";"}

\* configparser.RawConfigParser._read (strict): acc.secs is the sequence of
\* [name, opts] read so far, opts a sequence of [key, val].
RECURSIVE ReadLines(_, _)
ReadLines(lines, acc) ==
    IF lines = <<>> \/ acc.err # "none" THEN acc
    ELSE LET line == Head(lines)
             n == Len(acc.secs)
         IN CASE IsComment(line) -> ReadLines(Tail(lines), acc)
              [] line.k = "sec" ->
                    IF \E i \in 1..n : acc.secs[i].name = line.key
                    THEN [acc EXCEPT !.err = "DuplicateSectionError"]
                    ELSE ReadLines(Tail(lines),
                            [acc EXCEPT !.secs =
                                Append(@, [name |-> line.key, opts |-> <<>>])])
              [] n = 0 -> [acc EXCEPT !.err = "MissingSectionHeaderError"]
              [] line.k = "junk" ->
                    ReadLines(Tail(lines), [acc EXCEPT !.junk = TRUE])
              [] OTHER ->
                    LET key == Strip(line.key)
                        cur == acc.secs[n].opts
                    IN IF \E i \in 1..Len(cur) : cur[i].key = key
                       THEN [acc EXCEPT !.err = "DuplicateOptionError"]
                       ELSE ReadLines(Tail(lines),
                               [acc EXCEPT !.secs[n].opts =
                                   Append(@, [key |-> key, val |-> Strip(line.val)])])

\* ConfigParser.read([name]) on an existing file: the sections, or the error
ConfigRead(lines) ==
    LET r == ReadLines(lines, [err |-> "none", secs |-> <<>>, junk |-> FALSE])
    IN IF r.err = "none" /\ r.junk THEN [r EXCEPT !.err = "ParsingError"] ELSE r

\* ConfigParser.has_option(section, name)
has_option(cfg, section, name) ==
    \E i \in 1..Len(cfg) : /\ cfg[i].name = section
                           /\ \E j \in 1..Len(cfg[i].opts) : cfg[i].opts[j].key = name

RawGet(cfg, section, name) ==
    LET s == CHOOSE i \in 1..Len(cfg) : cfg[i].name = section
        o == CHOOSE j \in 1..Len(cfg[s].opts) : cfg[s].opts[j].key = name
    IN cfg[s].opts[o].val

\* BasicInterpolation.before_get: '%%' is '%', any other '%' is an error
RECURSIVE Interpolate(_)
Interpolate(t) ==
    IF t = <<>> THEN [ok |-> TRUE, s |-> <<>>]
    ELSE IF t[1] # "%"
         THEN LET r == Interpolate(Tail(t))
              IN [ok |-> r.ok, s |-> <<t[1]>> \o r.s]
         ELSE IF Len(t) >= 2 /\ t[2] = "%"
              THEN LET r == Interpolate(SubSeq(t, 3, Len(t)))
                   IN [ok |-> r.ok, s |-> <<"%">> \o r.s]
              ELSE [ok |-> FALSE, s |-> <<>>]

\* ConfigParser.get(section, name)
ConfigGet(cfg, section, name) == Interpolate(RawGet(cfg, section, name))

\* value.split(',')
RECURSIVE SplitComma(_)
SplitComma(t) ==
    LET c == Find(t, ",")
    IN IF c = 0 THEN <<t>>
       ELSE <<SubSeq(t, 1, c - 1)>> \o SplitComma(SubSeq(t, c + 1, Len(t)))

\* FieldTokens without the test value == 'True' of a flag
FieldTokensAnyFlag(opts, value) ==
    IF value # <<>> /\ value # None
    THEN IF opts.action = "store_true"
         THEN << <<"-", "-">> \o opts.name >>
         ELSE << <<"-", "-">> \o opts.name \o <<"=">> \o value >>
    ELSE <<>>

\* the tokens one stored value gives (lines 117-129)
FieldTokens(opts, value) ==
    IF value # <<>> /\ value # None
    THEN (IF opts.action = "store_true" /\ value = True
          THEN << <<"-", "-">> \o opts.name >> ELSE <<>>)
         \o
         (IF opts.action # "store_true"
          THEN IF opts.nargs = "+"
               THEN << <<"-", "-">> \o opts.name >>
                    \o [i \in 1..Len(SplitComma(value)) |-> Strip(SplitComma(value)[i])]
               ELSE << <<"-", "-">> \o opts.name \o <<"=">> \o value >>
          ELSE <<>>)
    ELSE <<>>

RECURSIVE ItemsToList(_, _, _)
ItemsToList(cfg, items, result) ==
    IF items = <<>> THEN [exc |-> "none", ret |-> result]
    ELSE LET it == Head(items)
         IN IF ~has_option(cfg, it.sec, it.opts.name)
            THEN ItemsToList(cfg, Tail(items), result)
            ELSE LET value == ConfigGet(cfg, it.sec, it.opts.name)
                 IN IF ~value.ok
                    THEN [exc |-> "InterpolationSyntaxError", ret |-> <<>>]
                    ELSE ItemsToList(cfg, Tail(items),
                                     result \o FieldTokens(it.opts, value.s))

\* config_to_list(config_name): [exc, ret]
config_to_list(fsys, config_name) ==
    LET f == FileAt(fsys, config_name)
    IN IF f.st = "missing" THEN [exc |-> "none", ret |-> <<>>]
       ELSE LET r == ConfigRead(f.lines)
            IN IF r.err # "none" THEN [exc |-> r.err, ret |-> <<>>]
               ELSE ItemsToList(r.secs, SchemaItems, <<>>)

-----------------------------------------------------------------------------
(* argparse *)

\* the characters of the field names, in the order of their code points
CodeOrder == <<"-", "a", "b", "c", "d", "e", "f", "g", "h", "i", "j", "k", "l", "m",
               "n", "o", "p", "q", "r", "s", "t", "u", "v", "w", "x", "y", "z">>

Rank(c) == CHOOSE i \in 1..Len(CodeOrder) : CodeOrder[i] = c

\* t < u for two strs
RECURSIVE Before(_, _)
Before(t, u) ==
    IF t = <<>> THEN u # <<>>
    ELSE IF u = <<>> THEN FALSE
    ELSE IF t[1] = u[1] THEN Before(Tail(t), Tail(u))
    ELSE Rank(t[1]) < Rank(u[1])

\* "for name in sorted(SECTIONS[section])": the fields by name
RECURSIVE SortedFields(_)
SortedFields(S) ==
    IF S = {} THEN <<>>
    ELSE LET m == CHOOSE x \in S : \A y \in S \ {x} : Before(x.name, y.name)
         IN <<m>> \o SortedFields(S \ {m})

\* Params.add_parser_args: the fields of the parser built for *sections*, a
\* sequence of section names
RECURSIVE ParserFields(_)
ParserFields(sections) ==
    IF sections = <<>> THEN <<>>
    ELSE LET fields == Section(Head(sections)).fields
         IN SortedFields({fields[i] : i \in 1..Len(fields)})
                \o ParserFields(Tail(sections))

\* Params(sections).add_arguments(parser)
Params(sections) == ParserFields(sections \o <<general>>)

\* ArgumentParser.parse_args(''): the defaults of the parser
get_defaults(parser) ==
    [d \in {Underscore(parser[i].name) : i \in 1..Len(parser)} |->
        (CHOOSE o \in {parser[i] : i \in 1..Len(parser)} : Underscore(o.name) = d).default]

Dashes == <<"-", "-">>
HelpOption == <<"-", "-", "h", "e", "l", "p">>

\* the long option strings of the parser that start with *prefix*
Matching(parser, prefix) ==
    {i \in 1..Len(parser) : StartsWith(Dashes \o parser[i].name, prefix)}

\* the regular expression '^-\d+$|^-\d*\.\d+$'
IsNegativeNumber(t) ==
    /\ Len(t) >= 2 /\ t[1] = "-"
    /\ LET u == Tail(t)
           dot == Find(u, ".")
       IN IF dot = 0 THEN AllDigits(u)
          ELSE /\ AllDigits(SubSeq(u, 1, dot - 1))
               /\ dot < Len(u)
               /\ AllDigits(SubSeq(u, dot + 1, Len(u)))

Positional == [kind |-> "A", act |-> 0, explicit |-> FALSE, arg |-> <<>>]
Known(i, explicit, arg) == [kind |-> "O", act |-> i, explicit |-> explicit, arg |-> arg]
Help == [kind |-> "O", act |-> -1, explicit |-> FALSE, arg |-> <<>>]
Ambiguous == [kind |-> "O", act |-> -2, explicit |-> FALSE, arg |-> <<>>]
Unknown == [kind |-> "O", act |-> 0, explicit |-> FALSE, arg |-> <<>>]

\* ArgumentParser._parse_optional: how one argument string is read
\* (act is the index of the parser's field, -1 for help, -2 for an ambiguous
\* abbreviation, 0 for none)
ParseOptional(parser, t) ==
    LET eq == Find(t, "=")
        prefix == IF eq = 0 THEN t ELSE SubSeq(t, 1, eq - 1)
        explicit == IF eq = 0 THEN <<>> ELSE SubSeq(t, eq + 1, Len(t))
        exact(s) == {i \in 1..Len(parser) : Dashes \o parser[i].name = s}
        abbrev == Matching(parser, prefix)
        helpAbbrev == StartsWith(HelpOption, prefix)
    IN CASE t = <<>> \/ t[1] # "-" -> Positional
         [] exact(t) # {} -> Known(CHOOSE i \in exact(t) : TRUE, FALSE, <<>>)
         [] t = HelpOption \/ t = <<"-", "h">> -> Help
         [] Len(t) = 1 -> Positional
         [] eq # 0 /\ exact(prefix) # {} ->
                Known(CHOOSE i \in exact(prefix) : TRUE, TRUE, explicit)
         [] eq # 0 /\ prefix = HelpOption -> Help
         [] StartsWith(t, Dashes) /\ Cardinality(abbrev) + (IF helpAbbrev THEN 1 ELSE 0) > 1 ->
                Ambiguous
         [] StartsWith(t, Dashes) /\ Cardinality(abbrev) = 1 ->
                Known(CHOOSE i \in abbrev : TRUE, eq # 0, explicit)
         [] StartsWith(t, Dashes) /\ helpAbbrev -> Help
         [] IsNegativeNumber(t) -> Positional
         [] Find(t, " ") # 0 -> Positional
         [] OTHER -> Unknown

\* ArgumentParser._get_value: type_func(arg_string)
GetValue(opts, text) ==
    IF opts.type = "float"
    THEN LET r == float(text) IN [ok |-> r.ok, v |-> FloatV(r.n)]
    ELSE [ok |-> TRUE, v |-> StrV(text)]

\* ArgumentParser.parse_known_args(values)[0]: [exc, ns].  Unknown options
\* and positional strings go to the extras, which the caller drops.
RECURSIVE ConsumeArgs(_, _, _, _)
ConsumeArgs(parser, values, i, ns) ==
    IF i > Len(values) THEN [exc |-> "none", ns |-> ns]
    ELSE LET o == ParseOptional(parser, values[i])
             exit == [exc |-> "SystemExit", ns |-> ns]
         IN CASE o.kind = "A" \/ o = Unknown -> ConsumeArgs(parser, values, i + 1, ns)
              [] o.act < 0 -> exit
              [] parser[o.act].action = "store_true" ->
                    IF o.explicit THEN exit
                    ELSE ConsumeArgs(parser, values, i + 1,
                            [ns EXCEPT ![Underscore(parser[o.act].name)] = BoolV(TRUE)])
              [] OTHER ->
                    LET inline == o.explicit
                        hasNext == /\ i < Len(values)
                                   /\ ParseOptional(parser, values[i + 1]).kind = "A"
                        text == IF inline THEN o.arg
                                ELSE IF hasNext THEN values[i + 1] ELSE <<>>
                        val == GetValue(parser[o.act], text)
                    IN IF (~inline /\ ~hasNext) \/ ~val.ok THEN exit
                       ELSE ConsumeArgs(parser, values, IF inline THEN i + 1 ELSE i + 2,
                               [ns EXCEPT ![Underscore(parser[o.act].name)] = val.v])

ParseKnown(parser, values) == ConsumeArgs(parser, values, 1, get_defaults(parser))

-----------------------------------------------------------------------------
(* Argument merger *)

DashConfig == Dashes \o config

\* first index >= i at which *sub* occurs in t, 0 when none
FindSub(t, sub, i) ==
    LET hits == {j \in i..(Len(t) - Len(sub) + 1) : SubSeq(t, j, j + Len(sub) - 1) = sub}
    IN IF hits = {} THEN 0 ELSE CHOOSE j \in hits : \A h \in hits : j <= h

\* get_config_name(): [exc, name].  argv[1] is the program name.
get_config_name(av) ==
    LET hits == {i \in 1..Len(av) : StartsWith(av[i], DashConfig)}
    IN IF hits = {} THEN [exc |-> "none", name |-> CONFIG_FILE_NAME]
       ELSE LET i == CHOOSE h \in hits : \A g \in hits : h <= g
                arg == av[i]
                nxt == FindSub(arg, DashConfig, Len(DashConfig) + 1)
                \* arg.split('--config')[1]
                piece == SubSeq(arg, Len(DashConfig) + 1,
                                IF nxt = 0 THEN Len(arg) ELSE nxt - 1)
            IN IF arg = DashConfig
               THEN IF i + 1 <= Len(av) THEN [exc |-> "none", name |-> av[i + 1]]
                    ELSE [exc |-> "IndexError", name |-> <<>>]
               ELSE IF piece = <<>> THEN [exc |-> "IndexError", name |-> <<>>]
                    ELSE [exc |-> "none",
                          name |-> IF piece[1] = "=" THEN Tail(piece) ELSE piece]

\* parse_known_args reading the config file whatever the length of sys.argv
parse_known_argsAlways(fsys, av, parser, subparser) ==
    LET name == get_config_name(av)
        config_values == config_to_list(fsys, name.name)
    IN IF name.exc # "none" THEN [exc |-> name.exc, ns |-> <<>>]
       ELSE IF config_values.exc # "none"
            THEN [exc |-> config_values.exc, ns |-> <<>>]
            ELSE ParseKnown(parser, config_values.ret \o Tail(av))

\* parse_known_args(parser, subparser): [exc, ns]
parse_known_args(fsys, av, parser, subparser) ==
    IF Len(av) > 1
    THEN LET subparser_value == IF subparser THEN <<av[2]>> ELSE <<>>
             name == get_config_name(av)
             config_values == config_to_list(fsys, name.name)
         IN IF name.exc # "none" THEN [exc |-> name.exc, ns |-> <<>>]
            ELSE IF config_values.exc # "none"
                 THEN [exc |-> config_values.exc, ns |-> <<>>]
                 ELSE ParseKnown(parser,
                        subparser_value \o config_values.ret \o Tail(av))
    ELSE ParseKnown(parser, <<>>)

-----------------------------------------------------------------------------
(* Config writer *)

InSeq(x, seq) == \E i \in 1..Len(seq) : seq[i] = x

\* WriteValue taking the value of args whatever the sections selected
WriteValueAnySection(it, a, sections) ==
    IF Underscore(it.opts.name) \in DOMAIN a
    THEN a[Underscore(it.opts.name)]
    ELSE IF it.opts.default # NoneV THEN it.opts.default ELSE StrV(<<>>)

\* lines 163-169: the value write gives a field.  *a* is the Namespace (the
\* empty function when args is None), *sections* a sequence of section names
\* (empty when None).  No field of the schema has nargs, so that no value is
\* a list and line 167 joins nothing.
WriteValue(it, a, sections) ==
    IF /\ sections # <<>>
       /\ InSeq(it.sec, sections)
       /\ Underscore(it.opts.name) \in DOMAIN a
    THEN a[Underscore(it.opts.name)]
    ELSE IF it.opts.default # NoneV THEN it.opts.default ELSE StrV(<<>>)

\* WriteEntry without the '# ' prefix of an empty value
WriteEntryNoPrefix(it, a, sections) ==
    IF it.opts.name # config
    THEN << Entry(it.opts.name, Str(WriteValue(it, a, sections))) >>
    ELSE <<>>

\* lines 171-174: the entry config.set stores for a field, none for 'config'
WriteEntry(it, a, sections) ==
    LET value == WriteValue(it, a, sections)
        prefix == IF value = StrV(<<>>) THEN <<"#", " ">> ELSE <<>>
    IN IF it.opts.name # config
       THEN << Entry(prefix \o it.opts.name, Str(value)) >>
       ELSE <<>>

\* the lines ConfigParser.write produces: each section's header, then its entries
WriteLines(a, sections) ==
    Flatten([i \in 1..Len(SECTIONS) |->
        << Header(SECTIONS[i].name) >> \o
        Flatten([j \in 1..Len(SECTIONS[i].fields) |->
            WriteEntry([sec |-> SECTIONS[i].name, opts |-> SECTIONS[i].fields[j]],
                       a, sections)])])

\* write(config_file, args, sections): [exc, fs].  ConfigParser.set refuses a
\* value whose '%' is not doubled, before the file is opened.
write(fsys, config_file, a, sections) ==
    LET lines == WriteLines(a, sections)
    IN IF \E i \in 1..Len(lines) : ~Interpolate(lines[i].val).ok
       THEN [exc |-> "ValueError", fs |-> fsys]
       ELSE [exc |-> "none",
             fs |-> [q \in DOMAIN fsys \cup {config_file} |->
                        IF q = config_file THEN File(lines) ELSE fsys[q]]]

\* save_params_to_config(args)
save_params_to_config(fsys, a) == write(fsys, CONFIG_FILE_NAME, a, MONO_PARAMS)

-----------------------------------------------------------------------------
(* Calibration lookup.  Energies are numbers of keV; the table of a mode   *)
(* is the sequence of its (key, record) pairs in the order of the file, a  *)
(* record being a function from motor names to positions.  A key of the    *)
(* table and the energy find_nearest returns for it are the same value.    *)
(* Every key of the table is the text of a number (line 249).              *)
(* json.load of line 247 is read as the standard library's loader: the     *)
(* file imports no json, and as it stands the name is unbound there.       *)

CommonHead == <<"mirror_angle", "mirror_vertical_position", "dmm_usy_ob",
                "dmm_usy_ib", "dmm_dsy">>
MonoOnly == <<"dmm_us_arm", "dmm_ds_arm", "dmm_m2y">>
CommonTail == <<"dmm_usx", "dmm_dsx", "filter", "table_y", "flag">>

\* the motor attributes in the order lines 261-276 assign them
AssignOrder(mode) ==
    CommonHead \o (IF mode = "Mono" THEN MonoOnly ELSE <<>>) \o CommonTail

MotorFields == {(CommonHead \o MonoOnly \o CommonTail)[i] : i \in 1..13}

\* util.find_nearest(array, value): the first element of the array with the
\* least absolute difference to value; fatal on an empty array
find_nearest(array, value) ==
    IF array = <<>> THEN [exc |-> "ValueError", v |-> 0]
    ELSE LET best == CHOOSE i \in 1..Len(array) :
                        /\ \A j \in 1..Len(array) :
                              Abs(array[i] - value) <= Abs(array[j] - value)
                        /\ \A j \in 1..(i - 1) :
                              Abs(array[j] - value) > Abs(array[i] - value)
         IN [exc |-> "none", v |-> array[best]]

\* lines 261-276: the assignments, up to the first field the record lacks
RECURSIVE Assign(_, _, _)
Assign(order, rec, motors) ==
    IF order = <<>> THEN [exc |-> "none", motors |-> motors]
    ELSE IF Head(order) \notin DOMAIN rec
         THEN [exc |-> "KeyError", motors |-> motors]
         ELSE Assign(Tail(order), rec,
                     [f \in DOMAIN motors \cup {Head(order)} |->
                         IF f = Head(order) THEN rec[f] ELSE motors[f]])

\* set_default_config taking the positions of the first record of the mode
set_default_configFirstRecord(lk, p) ==
    CASE lk.st = "missing" -> [exc |-> "FileNotFoundError", params |-> p]
      [] lk.st = "unparseable" -> [exc |-> "JSONDecodeError", params |-> p]
      [] p.mode \notin DOMAIN lk.table -> [exc |-> "KeyError", params |-> p]
      [] OTHER ->
            LET entries == lk.table[p.mode]
                energies_flt == [i \in 1..Len(entries) |-> entries[i].key]
                energy_calibrated == find_nearest(energies_flt, p.energy_value)
            IN IF energy_calibrated.exc # "none"
               THEN [exc |-> energy_calibrated.exc, params |-> p]
               ELSE LET r == Assign(AssignOrder(p.mode), entries[1].rec, p.motors)
                    IN [exc |-> r.exc,
                        params |-> [p EXCEPT !.energy_value = energy_calibrated.v,
                                             !.motors = r.motors]]

\* set_default_config returning normally, the parameter set as it was, when
\* the table has no entry for the mode
set_default_configSilent(lk, p) ==
    CASE lk.st = "missing" -> [exc |-> "FileNotFoundError", params |-> p]
      [] lk.st = "unparseable" -> [exc |-> "JSONDecodeError", params |-> p]
      [] p.mode \notin DOMAIN lk.table -> [exc |-> "none", params |-> p]
      [] OTHER ->
            LET entries == lk.table[p.mode]
                energies_flt == [i \in 1..Len(entries) |-> entries[i].key]
                energy_calibrated == find_nearest(energies_flt, p.energy_value)
            IN IF energy_calibrated.exc # "none"
               THEN [exc |-> energy_calibrated.exc, params |-> p]
               ELSE LET rec == (CHOOSE e \in {entries[i] : i \in 1..Len(entries)} :
                                    e.key = energy_calibrated.v).rec
                        r == Assign(AssignOrder(p.mode), rec, p.motors)
                    IN [exc |-> r.exc,
                        params |-> [p EXCEPT !.energy_value = energy_calibrated.v,
                                             !.motors = r.motors]]

\* set_default_config(params): [exc, params]
set_default_config(lk, p) ==
    CASE lk.st = "missing" -> [exc |-> "FileNotFoundError", params |-> p]
      [] lk.st = "unparseable" -> [exc |-> "JSONDecodeError", params |-> p]
      [] p.mode \notin DOMAIN lk.table -> [exc |-> "KeyError", params |-> p]
      [] OTHER ->
            LET entries == lk.table[p.mode]
                energies_flt == [i \in 1..Len(entries) |-> entries[i].key]
                energy_calibrated == find_nearest(energies_flt, p.energy_value)
            IN IF energy_calibrated.exc # "none"
               THEN [exc |-> energy_calibrated.exc, params |-> p]
               ELSE LET rec == (CHOOSE e \in {entries[i] : i \in 1..Len(entries)} :
                                    e.key = energy_calibrated.v).rec
                        r == Assign(AssignOrder(p.mode), rec, p.motors)
                    IN [exc |-> r.exc,
                        params |-> [p EXCEPT !.energy_value = energy_calibrated.v,
                                             !.motors = r.motors]]

-----------------------------------------------------------------------------
(* Inputs *)

\* sequences over S of length at most n
RECURSIVE SeqsUpTo(_, _)
SeqsUpTo(S, n) ==
    IF n = 0 THEN {<<>>}
    ELSE LET shorter == SeqsUpTo(S, n - 1)
         IN shorter \cup {Append(q, x) : q \in {r \in shorter : Len(r) = n - 1}, x \in S}

AltPath == <<"a">>
Program == <<"d", "m", "m">>

\* the lines a hand-written config file is made of
LoadLines ==
    { Header(general), Header(energy), Header(energyioc),
      Entry(energy, <<"5">>), Entry(energy, <<" ", "2", ".", "5">>),
      Entry(energy, None), Entry(energy, <<>>), Entry(energy, <<"x">>),
      Entry(verbose, True), Entry(verbose, False),
      Entry(logs_home, <<"%">>), Entry(logs_home, <<"a", "=", "b">>),
      Entry(energyioc_prefix, <<"x">>),
      Entry(<<"#", " ">> \o energy, <<"7">>),
      Junk }

LoadFiles == {NoFile} \cup {File(l) : l \in SeqsUpTo(LoadLines, MaxLines)}

\* the config files of the resolve specification
ResolveFiles ==
    { NoFile,
      File(<<Junk>>),
      File(<<Header(energy), Entry(energy, <<"5">>)>>),
      File(<<Header(general), Entry(verbose, True)>>),
      File(<<Header(general), Entry(verbose, True), Entry(logs_home, <<"b">>),
             Header(energy), Entry(energy, <<"5">>),
             Header(energyioc), Entry(energyioc_prefix, <<"x">>)>>) }

AltFiles ==
    { NoFile,
      File(<<Header(energy), Entry(energy, <<"3">>),
             Header(energyioc), Entry(energyioc_prefix, <<"z">>)>>) }

\* the command-line tokens
ArgTokens ==
    { Dashes \o config, Dashes \o config \o <<"=">> \o AltPath,
      Dashes \o energy, Dashes \o energy \o <<"=", "7">>, <<"7">>,
      Dashes \o verbose }

ArgvSet == {<<Program>> \o a : a \in SeqsUpTo(ArgTokens, MaxArgs)}

ParserSections == {MONO_PARAMS, PINK_PARAMS}

\* the Namespaces given to write: those a parser returns, with the values a
\* command line can give them, and None
WriteArgs ==
    { <<>> } \cup
    { [get_defaults(Params(ps)) EXCEPT ![Underscore(energyioc_prefix)] = p,
                                       ![Underscore(logs_home)] = l,
                                       ![verbose] = v]
        : ps \in {MONO_PARAMS, PINK_PARAMS},
          p \in {StrV(<<"x">>), StrV(<<>>), StrV(None), StrV(<<" ", "x">>),
                 StrV(<<"%">>), StrV(<<"%", "%">>)},
          l \in {StrV(LOGS_HOME), StrV(<<"b">>), StrV(<<>>)},
          v \in {BoolV(FALSE), BoolV(TRUE)} } \cup
    { [get_defaults(Params(MONO_PARAMS)) EXCEPT ![energy] = FloatV(25),
                                                ![Underscore(energyioc_prefix)] = p]
        : p \in {StrV(<<"x">>), StrV(<<>>)} }

WriteSections == {<<>>, MONO_PARAMS, PINK_PARAMS, <<general>>, <<general, energy, energyioc>>}

Modes == {"Mono", "Pink"}
Keys == {20, 22, 24}
Requests == {19, 21}

\* the key sequences of a mode: no key twice
KeySeqs == {q \in SeqsUpTo(Keys, MaxKeys) : \A i, j \in 1..Len(q) : i # j => q[i] # q[j]}

\* a defect takes one field out of one record
Defects == {<<"", 0, "">>} \cup (Modes \X Keys \X {"dmm_us_arm", "flag"})

Record(m, k, defect) ==
    [f \in MotorFields \ (IF defect[1] = m /\ defect[2] = k THEN {defect[3]} ELSE {}) |->
        <<m, k, f>>]

Table(present, mono, pink, defect) ==
    [m \in present |->
        LET q == IF m = "Mono" THEN mono ELSE pink
        IN [i \in 1..Len(q) |-> [key |-> q[i], rec |-> Record(m, q[i], defect)]]]

Tables ==
    { [st |-> "missing", table |-> <<>>], [st |-> "unparseable", table |-> <<>>] } \cup
    { [st |-> "ok", table |-> Table(present, mono, pink, d)]
        : present \in SUBSET Modes, mono \in KeySeqs, pink \in KeySeqs, d \in Defects }

-----------------------------------------------------------------------------
(* State machine *)

\* config_to_list(last.file)
LoadOverrides ==
    LET r == config_to_list(fs, last.file)
    IN /\ tokens' = IF r.exc = "none" THEN r.ret ELSE tokens
       /\ exc' = r.exc
       /\ last' = [last EXCEPT !.op = "config_to_list"]
       /\ UNCHANGED <<fs, argv, args, lookup, params>>

\* parse_known_args(Params(psecs).add_arguments(parser), subparser)
Resolve(psecs, subparser) ==
    LET r == parse_known_args(fs, argv, Params(psecs), subparser)
    IN /\ args' = IF r.exc = "none" THEN r.ns ELSE <<>>
       /\ exc' = r.exc
       /\ last' = [last EXCEPT !.op = "parse_known_args", !.psecs = psecs,
                               !.sub = subparser]
       /\ UNCHANGED <<fs, argv, tokens, lookup, params>>

\* write(AltPath, args, sections)
Write(sections) ==
    LET r == write(fs, AltPath, args, sections)
    IN /\ fs' = r.fs
       /\ exc' = r.exc
       /\ last' = [last EXCEPT !.op = "write", !.file = AltPath, !.secs = sections,
                               !.written = (r.exc = "none")]
       /\ UNCHANGED <<argv, args, tokens, lookup, params>>

\* save_params_to_config(args)
SaveParamsToConfig ==
    LET r == save_params_to_config(fs, args)
    IN /\ fs' = r.fs
       /\ exc' = r.exc
       /\ last' = [last EXCEPT !.op = "write", !.file = CONFIG_FILE_NAME,
                               !.secs = MONO_PARAMS, !.written = (r.exc = "none")]
       /\ UNCHANGED <<argv, args, tokens, lookup, params>>

\* the caller sets params.mode and params.energy_value
Request(m, e) ==
    /\ params' = [params EXCEPT !.mode = m, !.energy_value = e]
    /\ exc' = "none"
    /\ last' = [last EXCEPT !.op = "request"]
    /\ UNCHANGED <<fs, argv, args, tokens, lookup>>

\* set_default_config(params)
SetDefaultConfig ==
    LET r == set_default_config(lookup, params)
    IN /\ params' = r.params
       /\ exc' = r.exc
       /\ last' = [last EXCEPT !.op = "set_default_config"]
       /\ UNCHANGED <<fs, argv, args, tokens, lookup>>

\* the loader on hand-written files
InitLoad ==
    \E f \in LoadFiles :
        /\ fs = [q \in {CONFIG_FILE_NAME} |-> f]
        /\ argv = <<Program>> /\ args = <<>> /\ tokens = <<>> /\ exc = "none"
        /\ last = [op |-> "init", file |-> CONFIG_FILE_NAME, secs |-> <<>>,
                   written |-> FALSE, psecs |-> <<>>, sub |-> FALSE]
        /\ lookup = [st |-> "missing", table |-> <<>>]
        /\ params = [mode |-> "Mono", energy_value |-> 21, motors |-> <<>>]

NextLoad == LoadOverrides

SpecLoad == InitLoad /\ [][NextLoad]_vars

\* the merger on a command line and two config files
InitResolve ==
    \E f \in ResolveFiles, g \in AltFiles, av \in ArgvSet :
        /\ fs = [q \in {CONFIG_FILE_NAME, AltPath} |->
                    IF q = CONFIG_FILE_NAME THEN f ELSE g]
        /\ argv = av /\ args = <<>> /\ tokens = <<>> /\ exc = "none"
        /\ last = [op |-> "init", file |-> CONFIG_FILE_NAME, secs |-> <<>>,
                   written |-> FALSE, psecs |-> <<>>, sub |-> FALSE]
        /\ lookup = [st |-> "missing", table |-> <<>>]
        /\ params = [mode |-> "Mono", energy_value |-> 21, motors |-> <<>>]

NextResolve == \E psecs \in ParserSections, subparser \in BOOLEAN : Resolve(psecs, subparser)

SpecResolve == InitResolve /\ [][NextResolve]_vars

\* the writer, and the loader on the files it writes
InitWrite ==
    \E a \in WriteArgs :
        /\ fs = [q \in {CONFIG_FILE_NAME} |-> NoFile]
        /\ argv = <<Program>> /\ args = a /\ tokens = <<>> /\ exc = "none"
        /\ last = [op |-> "init", file |-> CONFIG_FILE_NAME, secs |-> <<>>,
                   written |-> FALSE, psecs |-> <<>>, sub |-> FALSE]
        /\ lookup = [st |-> "missing", table |-> <<>>]
        /\ params = [mode |-> "Mono", energy_value |-> 21, motors |-> <<>>]

NextWrite ==
    \/ \E sections \in WriteSections : Write(sections)
    \/ SaveParamsToConfig
    \/ LoadOverrides

SpecWrite == InitWrite /\ [][NextWrite]_vars

\* the calibration lookup on a table
InitCal ==
    \E t \in Tables, m \in Modes, e \in Requests :
        /\ fs = [q \in {CONFIG_FILE_NAME} |-> NoFile]
        /\ argv = <<Program>> /\ args = <<>> /\ tokens = <<>> /\ exc = "none"
        /\ last = [op |-> "init", file |-> CONFIG_FILE_NAME, secs |-> <<>>,
                   written |-> FALSE, psecs |-> <<>>, sub |-> FALSE]
        /\ lookup = t
        /\ params = [mode |-> m, energy_value |-> e, motors |-> <<>>]

NextCal ==
    \/ \E m \in Modes, e \in Requests : Request(m, e)
    \/ SetDefaultConfig

SpecCal == InitCal /\ [][NextCal]_vars

Init == InitLoad \/ InitResolve \/ InitWrite \/ InitCal

Next == NextLoad \/ NextResolve \/ NextWrite \/ NextCal

Spec == Init /\ [][Next]_vars

-----------------------------------------------------------------------------
(* Properties of the loader (SpecLoad) *)

CurrentFile == FileAt(fs, last.file)

\* a parser holding every section of the schema
FullParser == Params(MONO_PARAMS)

\* the file parses, and every schema field it stores holds a value of the
\* field's type, written without interpolation syntax: True or False for a
\* flag, a number for energy
ValidConfig(lines) ==
    LET r == ConfigRead(lines)
    IN /\ r.err = "none"
       /\ \A i \in 1..Len(SchemaItems) :
            LET it == SchemaItems[i]
            IN has_option(r.secs, it.sec, it.opts.name) =>
                 LET v == RawGet(r.secs, it.sec, it.opts.name)
                 IN /\ Find(v, "%") = 0
                    /\ v \in {<<>>, None}
                       \/ CASE it.opts.action = "store_true" -> v \in {True, False}
                            [] it.opts.type = "float" -> float(v).ok
                            [] OTHER -> TRUE

\* the typed value a stored text stands for
TypedStored(opts, v) ==
    CASE opts.action = "store_true" -> BoolV(v = True)
      [] opts.type = "float" -> FloatV(float(v).n)
      [] OTHER -> StrV(v)

\* C2 as claimed: config_to_list returns the empty list, and no error reaches
\* the caller, whenever the config file does not exist or does not parse as INI.
C2_SilentOnMissingOrUnparseable ==
    ( /\ last.op = "config_to_list"
      /\ \/ CurrentFile.st = "missing"
         \/ ConfigRead(CurrentFile.lines).err # "none" )
    => (exc = "none" /\ tokens = <<>>)

\* C3: for a valid config file, parsing the tokens config_to_list returns as
\* command-line arguments gives every stored schema field the typed value the
\* file stores, and the default where the stored value is empty or "None".
C3_LoadRoundTrip ==
    ( /\ last.op = "config_to_list"
      /\ CurrentFile.st = "ok"
      /\ ValidConfig(CurrentFile.lines) )
    => /\ exc = "none"
       /\ LET cfg == ConfigRead(CurrentFile.lines).secs
              p == ParseKnown(FullParser, tokens)
          IN /\ p.exc = "none"
             /\ \A i \in 1..Len(SchemaItems) :
                  LET it == SchemaItems[i]
                  IN has_option(cfg, it.sec, it.opts.name) =>
                       LET v == RawGet(cfg, it.sec, it.opts.name)
                       IN PyEq(p.ns[Underscore(it.opts.name)],
                               IF v \in {<<>>, None} THEN it.opts.default
                               ELSE TypedStored(it.opts, v))

\* C3's case: a valid file storing energy = 2.5 (after a blank) has been loaded
C3_Witness ==
    /\ last.op = "config_to_list"
    /\ CurrentFile.st = "ok"
    /\ ValidConfig(CurrentFile.lines)
    /\ tokens = << Dashes \o energy \o <<"=", "2", ".", "5">> >>

-----------------------------------------------------------------------------
(* Properties of the merger (SpecResolve) *)

Resolved == last.op = "parse_known_args" /\ exc = "none"

\* the token is written for the field: '--name' or '--name=...'
Names(t, name) ==
    \/ t = Dashes \o name
    \/ StartsWith(t, Dashes \o name \o <<"=">>)

HasToken(list, name) == \E i \in 1..Len(list) : Names(list[i], name)

\* the value the last token written for the field gives it
TokenValue(list, opts) ==
    LET i == CHOOSE k \in 1..Len(list) :
                /\ Names(list[k], opts.name)
                /\ \A j \in (k + 1)..Len(list) : ~Names(list[j], opts.name)
        eq == Find(list[i], "=")
    IN IF opts.action = "store_true" THEN BoolV(TRUE)
       ELSE IF eq # 0 THEN GetValue(opts, SubSeq(list[i], eq + 1, Len(list[i]))).v
       ELSE GetValue(opts, list[i + 1]).v

\* the tokens of the config file the command line names
ConfigTokens == config_to_list(fs, get_config_name(argv).name).ret

\* the precedence of the three layers for the fields of a parser
Precedence(parser) ==
    \A i \in 1..Len(parser) :
        LET opts == parser[i]
            got == args[Underscore(opts.name)]
        IN IF HasToken(Tail(argv), opts.name)
           THEN got = TokenValue(Tail(argv), opts)
           ELSE IF HasToken(ConfigTokens, opts.name)
                THEN got = TokenValue(ConfigTokens, opts)
                ELSE got = opts.default

\* C1 as claimed: in the resolved set of any parser, a field with a token on
\* the command line has the command-line value, a field with a token only in
\* the config file's list has the config-file value, and a field with neither
\* has its compiled-in default.
C1_Precedence ==
    (Resolved /\ Len(argv) > 1) => Precedence(Params(last.psecs))

\* C9: invoked with no arguments, parse_known_args returns the compiled-in
\* default of every field of the parser, whatever the config file holds.
C9_NoArgumentsGiveDefaults ==
    (last.op = "parse_known_args" /\ Len(argv) = 1)
    => /\ exc = "none"
       /\ LET parser == Params(last.psecs)
          IN /\ DOMAIN args = {Underscore(parser[i].name) : i \in 1..Len(parser)}
             /\ \A i \in 1..Len(parser) :
                    args[Underscore(parser[i].name)] = parser[i].default

\* C9's case: no arguments, a config file that stores overrides, and a
\* resolved set holding the default energy
C9_Witness ==
    /\ last.op = "parse_known_args"
    /\ Len(argv) = 1
    /\ HasToken(config_to_list(fs, CONFIG_FILE_NAME).ret, energy)
    /\ energy \in DOMAIN args
    /\ args[energy] = IntV(-1)

-----------------------------------------------------------------------------
(* Properties of the writer (SpecWrite) *)

Wrote == last.op = "write" /\ exc = "none"

Commented(name) == <<"#", " ">> \o name

\* the lines of the file that hold the field, commented or not
EntriesOf(lines, name) ==
    {i \in 1..Len(lines) : lines[i].k = "opt" /\ lines[i].key \in {name, Commented(name)}}

\* the section a line of the file lies in
SectionAt(lines, i) ==
    LET heads == {h \in 1..(i - 1) : lines[h].k = "sec"}
    IN IF heads = {} THEN <<>>
       ELSE lines[CHOOSE h \in heads : \A g \in heads : g <= h].key

Selects(it) ==
    InSeq(it.sec, last.secs) /\ Underscore(it.opts.name) \in DOMAIN args

\* what the claim has write emit for a field
Emitted(it) ==
    IF Selects(it) THEN args[Underscore(it.opts.name)]
    ELSE IF it.opts.default = NoneV THEN StrV(<<>>) ELSE it.opts.default

\* C8: write emits the sections in declaration order and, for every field
\* but config, one entry in its section: the resolved value when the section
\* is selected and the resolved set has the field, the compiled-in default
\* otherwise; config is never written.
C8_WriteEmits ==
    Wrote =>
        LET lines == CurrentFile.lines
        IN /\ CurrentFile.st = "ok"
           /\ SelectSeq(lines, LAMBDA l : l.k = "sec")
                = [i \in 1..Len(SECTIONS) |-> Header(SECTIONS[i].name)]
           /\ EntriesOf(lines, config) = {}
           /\ \A i \in 1..Len(SchemaItems) :
                LET it == SchemaItems[i]
                    at == EntriesOf(lines, it.opts.name)
                IN it.opts.name # config =>
                     /\ Cardinality(at) = 1
                     /\ \A j \in at : /\ SectionAt(lines, j) = it.sec
                                      /\ lines[j].val = Str(Emitted(it))

\* C8's case: written with the sections of MONO_PARAMS, the file holds the
\* default logs-home although the resolved set holds another one
C8_Witness ==
    /\ Wrote
    /\ last.secs = MONO_PARAMS
    /\ Underscore(logs_home) \in DOMAIN args
    /\ args[Underscore(logs_home)] = StrV(<<"b">>)
    /\ \E i \in 1..Len(CurrentFile.lines) :
          CurrentFile.lines[i] = Entry(logs_home, LOGS_HOME)

\* the file read is the one the last write produced from args
LoadedBack == last.op = "config_to_list" /\ last.written /\ exc = "none"

\* parsing the tokens of the file gives the field a value equal to v
ComesBack(name, v) ==
    LET p == ParseKnown(FullParser, tokens)
    IN p.exc = "none" /\ PyEq(p.ns[Underscore(name)], v)

\* every field whose written value is empty is in the file as a commented
\* entry only
EmptyCommented ==
    \A i \in 1..Len(SchemaItems) :
        LET it == SchemaItems[i]
            lines == CurrentFile.lines
        IN (it.opts.name # config /\ Emitted(it) = StrV(<<>>)) =>
             /\ \E j \in 1..Len(lines) : lines[j] = Entry(Commented(it.opts.name), <<>>)
             /\ \A j \in 1..Len(lines) : lines[j].k = "opt" => lines[j].key # it.opts.name

Plain(t) ==
    /\ t # <<>> /\ t # None
    /\ Strip(t) = t
    /\ Find(t, "%") = 0

-----------------------------------------------------------------------------
(* Properties of the calibration lookup (SpecCal) *)

Calibrated == last.op = "set_default_config" /\ exc = "none"

\* the record the table holds for an energy of a mode
RecordOf(mode, e) ==
    LET entries == lookup.table[mode]
    IN (CHOOSE x \in {entries[i] : i \in 1..Len(entries)} : x.key = e).rec

NoTable == lookup.st # "ok"
UnknownMode == lookup.st = "ok" /\ params.mode \notin DOMAIN lookup.table
NoEnergies ==
    /\ lookup.st = "ok"
    /\ params.mode \in DOMAIN lookup.table
    /\ lookup.table[params.mode] = <<>>

\* C7: with the table missing or unparseable, the mode not in the table, or
\* no energy key for the mode, set_default_config ends with an error.
C7_FatalWithoutTable ==
    (last.op = "set_default_config" /\ (NoTable \/ UnknownMode \/ NoEnergies))
    => exc # "none"

\* C7's case: the call on a mode the table holds without any energy
C7_Witness ==
    /\ last.op = "set_default_config"
    /\ NoEnergies
    /\ exc = "ValueError"
    /\ params.motors = <<>>

====
